---- MODULE Spec2Model ----
(***************************************************************************)
(* The Bitcoin app wizard of crates/bitcoin_app_wizard (wizard_modal.rs):  *)
(* the step controller (next_step, previous_step, the selection handlers), *)
(* create_project with the background task it spawns, and write_scaffold;  *)
(* and run_slash_command of the utxix extension (extensions/utxix lib.rs). *)
(*                                                                         *)
(* Texts the user types are sequences of one-character strings, so that    *)
(* trim() is computed and not assumed.  Paths are sequences of components  *)
(* (strings), "/" being the root component.  Generated texts are sequences *)
(* of segments (strings).  An Option is <<>> (None) or <<v>> (Some(v)).    *)
(***************************************************************************)
EXTENDS Integers, Sequences, FiniteSets, TLC

VARIABLES
    step,                      \* BitcoinAppWizard.step
    framework,                 \* BitcoinAppWizard.framework
    template,                  \* BitcoinAppWizard.template
    generate_docs,             \* BitcoinAppWizard.generate_docs
    app_name_input,            \* text of BitcoinAppWizard.app_name_input
    custom_description_input,  \* text of BitcoinAppWizard.custom_description_input
    dismissed,                 \* number of DismissEvents the wizard has emitted
    workspace_alive,           \* the workspace (and window) the wizard was opened in still exists
    flows,                     \* the tasks create_project has spawned, in spawn order
    slash_command              \* the extension's slash command: name, arguments, output

vars == <<step, framework, template, generate_docs, app_name_input,
          custom_description_input, dismissed, workspace_alive, flows, slash_command>>

wizard_vars == <<step, framework, template, generate_docs, app_name_input,
                 custom_description_input, dismissed>>

(***************************************************************************)
(* Bounds and input samples.                                               *)
(***************************************************************************)
\* How many times one wizard instance may trigger generation in Spec.
MaxFlows == 2

\* Texts typed into the app-name field.
NameInputs == { <<>>, <<" ", "a", " ">> }

\* Texts typed into the custom-description field.
DescriptionInputs == { <<>>, <<" ">>, <<"d">> }

\* Directories the folder picker can return.
BaseDirs == { <<"/", "home">> }

(***************************************************************************)
(* The enumerations.                                                       *)
(***************************************************************************)
WizardStep == {"AppName", "Framework", "Template", "Creating"}

Framework_all == <<"React", "Nextjs", "Vue", "Angular", "Svelte">>

Framework == {Framework_all[i] : i \in 1..Len(Framework_all)}

Framework_display_name(f) ==
    CASE f = "React"   -> "React"
      [] f = "Nextjs"  -> "Next.js"
      [] f = "Vue"     -> "Vue"
      [] f = "Angular" -> "Angular"
      [] f = "Svelte"  -> "Svelte"

\* A default that is not the first element of all().
Framework_default_Second == "Nextjs"

Framework_default == "React"

Template_all == <<"HelloWorld", "Counter", "TicTacToe", "Auction", "Custom">>

Template == {Template_all[i] : i \in 1..Len(Template_all)}

Template_display_name(t) ==
    CASE t = "HelloWorld" -> "Hello World"
      [] t = "Counter"    -> "Counter"
      [] t = "TicTacToe"  -> "Tic-Tac-Toe"
      [] t = "Auction"    -> "Auction"
      [] t = "Custom"     -> "Custom"

Template_default == "HelloWorld"

(***************************************************************************)
(* Texts and paths.                                                        *)
(***************************************************************************)
None == <<>>

Some(v) == <<v>>

IsWhitespace(c) == c \in {" ", "\t", "\n"}

RECURSIVE TrimStart(_)
TrimStart(s) ==
    IF s # <<>> /\ IsWhitespace(Head(s)) THEN TrimStart(Tail(s)) ELSE s

RECURSIVE TrimEnd(_)
TrimEnd(s) ==
    IF s # <<>> /\ IsWhitespace(s[Len(s)]) THEN TrimEnd(SubSeq(s, 1, Len(s) - 1)) ELSE s

\* str::trim
Trim(s) == TrimEnd(TrimStart(s))

\* The String a text denotes.
RECURSIVE Str(_)
Str(s) == IF s = <<>> THEN "" ELSE Head(s) \o Str(Tail(s))

\* The components of the path a text denotes: split at "/", a leading "/" being
\* the root component, empty components dropped.
RECURSIVE Components(_, _)
Components(s, cur) ==
    IF s = <<>> THEN (IF cur = <<>> THEN <<>> ELSE <<Str(cur)>>)
    ELSE IF Head(s) = "/"
         THEN (IF cur = <<>> THEN <<>> ELSE <<Str(cur)>>) \o Components(Tail(s), <<>>)
         ELSE Components(Tail(s), Append(cur, Head(s)))

PathOf(s) ==
    (IF s # <<>> /\ Head(s) = "/" THEN <<"/">> ELSE <<>>) \o Components(s, <<>>)

IsAbsolute(p) == p # <<>> /\ p[1] = "/"

\* PathBuf::join: an absolute argument replaces the receiver.
Path_join(p, q) == IF IsAbsolute(q) THEN q ELSE p \o q

\* Path::parent
Path_parent(p) ==
    IF p = <<>> \/ p = <<"/">> THEN None ELSE Some(SubSeq(p, 1, Len(p) - 1))

(***************************************************************************)
(* crate::templates.  The module is not among the sources; it is modelled  *)
(* from the specification: one contract file name and body per template,   *)
(* a README naming framework and template, frontend files chosen by the    *)
(* framework that refer to the contract file, and a fixed backend set.     *)
(***************************************************************************)
contract_filename(t) ==
    CASE t = "HelloWorld" -> "helloWorld.scrypt.ts"
      [] t = "Counter"    -> "counter.scrypt.ts"
      [] t = "TicTacToe"  -> "ticTacToe.scrypt.ts"
      [] t = "Auction"    -> "auction.scrypt.ts"
      [] t = "Custom"     -> "custom.scrypt.ts"

contract_source(t, description) ==
    <<"contract ", Template_display_name(t)>>
        \o (IF t = "Custom" /\ description # None
            THEN <<" description: ", Str(description[1])>>
            ELSE <<>>)

ENV_EXAMPLE == <<"env example">>

AI_RULES == <<"ai rules">>

readme(f, t) ==
    <<"readme ", Framework_display_name(f), " ", Template_display_name(t),
      " contracts/", contract_filename(t)>>

frontend_files(f, contract) ==
    << [path |-> <<"package.json">>, contents |-> <<"package ", f>>],
       [path |-> <<"src", "components", "Game." \o f>>,
        contents |-> <<"game ", f, " artifact of contracts/", contract>>] >>

backend_files ==
    << [path |-> <<"server", "index.js">>, contents |-> <<"oauth server">>] >>

(***************************************************************************)
(* The instructional prompt text create_project formats.                   *)
(***************************************************************************)
CRITICAL_RULES == "\n\nCRITICAL RULES: ...\n\nFocus on:\n1. Complete the smart contract logic in contracts/"

PromptText(f, t, description, contract) ==
    IF description # None
    THEN << "The project scaffold is already created with ",
            Framework_display_name(f),
            " frontend and Yours Wallet integration. DO NOT run any CLI commands like 'npm create' or 'npx create-vue'. Instead, EDIT the existing files to implement: ",
            Str(description[1]),
            CRITICAL_RULES,
            contract,
            "\n2. Update the Game component ...\n3. Use YoursDirectSigner for settlement transactions\n\nSee AI_RULES.md ..." >>
    ELSE << "The project scaffold is already created with ",
            Framework_display_name(f),
            " frontend and Yours Wallet integration. DO NOT run any CLI commands. EDIT the existing files to complete the ",
            Template_display_name(t),
            " implementation.",
            CRITICAL_RULES,
            contract,
            "\n2. Update the Game component ...\n\nSee AI_RULES.md ..." >>

(***************************************************************************)
(* write_scaffold.  The file system may refuse any single operation; the   *)
(* operations are fs::create_dir_all and fs::write, in program order.      *)
(***************************************************************************)
\* One thing a flow did or asked the host to do.
Event(kind, path, text) == [kind |-> kind, path |-> path, text |-> text]

\* One file system operation with the anyhow context attached to its failure.
FsOp(kind, path, text, context, named) ==
    [kind |-> kind, path |-> path, text |-> text, context |-> context, named |-> named]

\* A write_scaffold that uses the name as typed.
ProjectPath_Untrimmed(name, base_dir) ==
    LET app_folder == IF name = <<>> THEN PathOf(<<"b","i","t","c","o","i","n","-","a","p","p">>)
                      ELSE PathOf(name)
    IN  Path_join(base_dir, app_folder)

\* lines 632-639
ProjectPath(name, base_dir) ==
    LET sanitized == Trim(name)
        app_folder == IF sanitized = <<>> THEN PathOf(<<"b","i","t","c","o","i","n","-","a","p","p">>)
                      ELSE PathOf(sanitized)
    IN  Path_join(base_dir, app_folder)

\* A write_scaffold that pushes PRD.md and tasks.md whatever generate_docs is.
ScaffoldFiles_DocsAlways(project_path, f, t, description, docs, prompt_text) ==
    LET contract == contract_filename(t)
        Under(list) == [i \in 1..Len(list) |->
                          [path |-> Path_join(project_path, list[i].path),
                           contents |-> list[i].contents]]
    IN  << [path |-> Path_join(project_path, <<".env.example">>), contents |-> ENV_EXAMPLE],
           [path |-> Path_join(project_path, <<"README.md">>), contents |-> readme(f, t)],
           [path |-> Path_join(project_path, <<"AI_RULES.md">>), contents |-> AI_RULES],
           [path |-> Path_join(Path_join(project_path, <<"contracts">>), <<contract>>),
            contents |-> contract_source(t, description)],
           [path |-> Path_join(project_path, <<"PRD.md">>),
            contents |-> <<"# Project Requirements\n\nPrompt:\n\n">> \o prompt_text \o <<"\n">>],
           [path |-> Path_join(project_path, <<"tasks.md">>),
            contents |-> <<"- [ ] Implement sCrypt covenant contract\n...">>] >>
        \o Under(frontend_files(f, contract))
        \o Under(backend_files)

\* lines 655-693: the (path, contents) list, in push order
ScaffoldFiles(project_path, f, t, description, docs, prompt_text) ==
    LET contract == contract_filename(t)
        Under(list) == [i \in 1..Len(list) |->
                          [path |-> Path_join(project_path, list[i].path),
                           contents |-> list[i].contents]]
    IN  << [path |-> Path_join(project_path, <<".env.example">>), contents |-> ENV_EXAMPLE],
           [path |-> Path_join(project_path, <<"README.md">>), contents |-> readme(f, t)],
           [path |-> Path_join(project_path, <<"AI_RULES.md">>), contents |-> AI_RULES],
           [path |-> Path_join(Path_join(project_path, <<"contracts">>), <<contract>>),
            contents |-> contract_source(t, description)] >>
        \o (IF docs
            THEN << [path |-> Path_join(project_path, <<"PRD.md">>),
                     contents |-> <<"# Project Requirements\n\nPrompt:\n\n">> \o prompt_text \o <<"\n">>],
                    [path |-> Path_join(project_path, <<"tasks.md">>),
                     contents |-> <<"- [ ] Implement sCrypt covenant contract\n...">>] >>
            ELSE <<>>)
        \o Under(frontend_files(f, contract))
        \o Under(backend_files)

\* A write_scaffold that leaves src/lib to the files that need it.
ScaffoldDirOps_NoLib(project_path) ==
    << FsOp("create_dir_all", project_path, <<>>, "create project folder", project_path),
       FsOp("create_dir_all", Path_join(project_path, <<"contracts">>), <<>>,
            "create contracts folder", <<>>),
       FsOp("create_dir_all", Path_join(project_path, <<"src", "components">>), <<>>,
            "create src/components folder", <<>>),
       FsOp("create_dir_all", Path_join(project_path, <<"src", "services">>), <<>>,
            "create src/services folder", <<>>) >>

\* lines 641-650: the required directories
ScaffoldDirOps(project_path) ==
    << FsOp("create_dir_all", project_path, <<>>, "create project folder", project_path),
       FsOp("create_dir_all", Path_join(project_path, <<"contracts">>), <<>>,
            "create contracts folder", <<>>),
       FsOp("create_dir_all", Path_join(project_path, <<"src", "components">>), <<>>,
            "create src/components folder", <<>>),
       FsOp("create_dir_all", Path_join(project_path, <<"src", "lib">>), <<>>,
            "create src/lib folder", <<>>),
       FsOp("create_dir_all", Path_join(project_path, <<"src", "services">>), <<>>,
            "create src/services folder", <<>>) >>

\* lines 695-701: per file, its parent directory and then the file
RECURSIVE ScaffoldFileOps(_)
ScaffoldFileOps(files) ==
    IF files = <<>> THEN <<>>
    ELSE LET file == Head(files)
             parent == Path_parent(file.path)
         IN  (IF parent # None
              THEN <<FsOp("create_dir_all", parent[1], <<>>, "create directory for file", file.path)>>
              ELSE <<>>)
             \o <<FsOp("write", file.path, file.contents, "write file", file.path)>>
             \o ScaffoldFileOps(Tail(files))

ScaffoldOps(name, base_dir, f, t, description, docs, prompt_text) ==
    LET project_path == ProjectPath(name, base_dir)
    IN  ScaffoldDirOps(project_path)
        \o ScaffoldFileOps(ScaffoldFiles(project_path, f, t, description, docs, prompt_text))

\* A write_scaffold that skips the operation that failed and carries on.
write_scaffold_KeepsGoing(name, base_dir, f, t, description, docs, prompt_text, fail_at) ==
    LET ops == ScaffoldOps(name, base_dir, f, t, description, docs, prompt_text)
    IN  IF fail_at = 0
        THEN [ok |-> TRUE, project_path |-> ProjectPath(name, base_dir),
              performed |-> ops, context |-> "", named |-> <<>>]
        ELSE [ok |-> FALSE, project_path |-> <<>>,
              performed |-> SubSeq(ops, 1, fail_at - 1) \o SubSeq(ops, fail_at + 1, Len(ops)),
              context |-> ops[fail_at].context, named |-> ops[fail_at].named]

\* The Result of write_scaffold when the file system refuses its fail_at-th
\* operation (0: none): the operations performed, and Ok(project_path) or the
\* error with the context of the refused operation.
write_scaffold(name, base_dir, f, t, description, docs, prompt_text, fail_at) ==
    LET ops == ScaffoldOps(name, base_dir, f, t, description, docs, prompt_text)
    IN  IF fail_at = 0
        THEN [ok |-> TRUE, project_path |-> ProjectPath(name, base_dir),
              performed |-> ops, context |-> "", named |-> <<>>]
        ELSE [ok |-> FALSE, project_path |-> <<>>,
              performed |-> SubSeq(ops, 1, fail_at - 1),
              context |-> ops[fail_at].context, named |-> ops[fail_at].named]


(***************************************************************************)
(* The utxix extension: run_slash_command.  Strings are sequences of       *)
(* one-character strings where they come from the arguments, so that       *)
(* join(" ") and len() are computed.  The code fence of the output texts   *)
(* (three backquotes) is written ~~~.                                      *)
(***************************************************************************)
\* How many arguments a slash command is given at most.
MaxArgs == 2

\* The words given as arguments, the empty string among them.
ArgWords == { <<>>, <<"a">>, <<"b", "c">> }

RECURSIVE ArgListsOf(_)
ArgListsOf(n) ==
    IF n = 0 THEN {<<>>}
    ELSE ArgListsOf(n - 1)
            \cup {Append(args, w) : args \in {a \in ArgListsOf(n - 1) : Len(a) = n - 1},
                                    w \in ArgWords}

ArgLists == ArgListsOf(MaxArgs)

CommandNames == {"covenant", "explain", "scaffold", ""}

\* No slash command has been given.
NoCommand == [name |-> "", args |-> <<>>, output |-> None]

\* args.join(" ")
RECURSIVE Join(_)
Join(args) ==
    IF args = <<>> THEN <<>>
    ELSE IF Len(args) = 1 THEN args[1]
    ELSE args[1] \o <<" ">> \o Join(Tail(args))

\* String::len of a text of segments
RECURSIVE TextLen(_)
TextLen(text) == IF text = <<>> THEN 0 ELSE Len(Head(text)) + TextLen(Tail(text))

generate_covenant_output(description) ==
    << "## Generated sCrypt Covenant Template\n\n**Request:** ", description,
       "\n\n~~~typescript\nimport ... from 'scrypt-ts';\n\n/**\n * ", description,
       "\n * \n * This is a template covenant. ...\n---\n\nRefine this template for: **", description,
       "**\n\nAsk me to add: win detection, ZK proofs, oracle integration, or perceptron AI opponent.\n" >>

generate_explain_output(code) ==
    << "## sCrypt Code Explanation Request\n\n**Code to explain:**\n~~~typescript\n", code,
       "\n~~~\n\n---\n...\nPlease explain the code above in plain English, then show the approximate Bitcoin Script opcodes it compiles to.\n" >>

\* Result<SlashCommandOutput, String>
Ok(sections, text) == [ok |-> TRUE, error |-> "", sections |-> sections, text |-> text]

Err(error) == [ok |-> FALSE, error |-> error, sections |-> <<>>, text |-> <<>>]

SlashCommandOutputSection(start, end, label) ==
    [range |-> [start |-> start, end |-> end], label |-> label]

\* A run_slash_command that explains nothing when given no code.
run_slash_command_ExplainsNothing(name, args) ==
    CASE name = "covenant" ->
            IF args = <<>>
            THEN Err("Please describe the covenant you want to generate (e.g., 'time-locked escrow')")
            ELSE LET description == Str(Join(args))
                     text == generate_covenant_output(description)
                 IN  Ok(<<SlashCommandOutputSection(0, TextLen(text),
                                                    <<"sCrypt Covenant: ", description>>)>>, text)
      [] name = "explain" ->
            LET code == Str(Join(args))
                text == generate_explain_output(code)
            IN  Ok(<<SlashCommandOutputSection(0, TextLen(text), <<"sCrypt Explanation">>)>>, text)
      [] OTHER -> Err("unknown slash command: \"" \o name \o "\"")

\* fn run_slash_command
run_slash_command(name, args) ==
    CASE name = "covenant" ->
            IF args = <<>>
            THEN Err("Please describe the covenant you want to generate (e.g., 'time-locked escrow')")
            ELSE LET description == Str(Join(args))
                     text == generate_covenant_output(description)
                 IN  Ok(<<SlashCommandOutputSection(0, TextLen(text),
                                                    <<"sCrypt Covenant: ", description>>)>>, text)
      [] name = "explain" ->
            IF args = <<>>
            THEN Err("Please provide sCrypt code to explain")
            ELSE LET code == Str(Join(args))
                     text == generate_explain_output(code)
                 IN  Ok(<<SlashCommandOutputSection(0, TextLen(text), <<"sCrypt Explanation">>)>>, text)
      [] OTHER -> Err("unknown slash command: \"" \o name \o "\"")

\* The host runs the slash command it was given.
RunSlashCommand ==
    /\ slash_command.output = None
    /\ slash_command' =
          [slash_command EXCEPT !.output = Some(run_slash_command(slash_command.name,
                                                                  slash_command.args))]
    /\ UNCHANGED <<step, framework, template, generate_docs, app_name_input,
                   custom_description_input, dismissed, workspace_alive, flows>>

\* SpecSlash: the extension is given one slash command, any name with any
\* arguments, and runs it.
InitSlash ==
    /\ step = "AppName"
    /\ framework = "React"
    /\ template = "HelloWorld"
    /\ generate_docs = TRUE
    /\ app_name_input = <<>>
    /\ custom_description_input = <<>>
    /\ dismissed = 0
    /\ workspace_alive = TRUE
    /\ flows = <<>>
    /\ \E name \in CommandNames, args \in ArgLists :
          slash_command = [name |-> name, args |-> args, output |-> None]

NextSlash == RunSlashCommand

SpecSlash == InitSlash /\ [][NextSlash]_vars

(***************************************************************************)
(* The wizard.                                                             *)
(***************************************************************************)
\* BitcoinAppWizard::app_name
app_name == app_name_input

\* A custom_description that tests the text as typed.
custom_description_Untrimmed ==
    IF custom_description_input = <<>> THEN None ELSE Some(custom_description_input)

\* BitcoinAppWizard::custom_description
custom_description ==
    IF Trim(custom_description_input) = <<>> THEN None ELSE Some(custom_description_input)

\* A select_framework that also puts the template back to its default.
select_framework_ResetsTemplate(f) ==
    /\ framework' = f
    /\ template' = Template_default
    /\ UNCHANGED <<step, generate_docs, app_name_input,
                   custom_description_input, dismissed, workspace_alive, flows, slash_command>>

\* fn select_framework
select_framework(f) ==
    /\ framework' = f
    /\ UNCHANGED <<step, template, generate_docs, app_name_input,
                   custom_description_input, dismissed, workspace_alive, flows, slash_command>>

\* fn select_template
select_template(t) ==
    /\ template' = t
    /\ UNCHANGED <<step, framework, generate_docs, app_name_input,
                   custom_description_input, dismissed, workspace_alive, flows, slash_command>>

\* the "toggle-docs" click listener
toggle_docs ==
    /\ generate_docs' = ~generate_docs
    /\ UNCHANGED <<step, framework, template, app_name_input,
                   custom_description_input, dismissed, workspace_alive, flows, slash_command>>

\* The user edits the app-name field.
edit_app_name(text) ==
    /\ app_name_input' = text
    /\ UNCHANGED <<step, framework, template, generate_docs,
                   custom_description_input, dismissed, workspace_alive, flows, slash_command>>

\* The user edits the custom-description field.
edit_custom_description(text) ==
    /\ custom_description_input' = text
    /\ UNCHANGED <<step, framework, template, generate_docs,
                   app_name_input, dismissed, workspace_alive, flows, slash_command>>

\* The task create_project spawns: what its closure captures (lines 207-222
\* and the prompt text of 224-265), the picker it has asked for, and its
\* locals.  result is the picker's answer; scaffold_result is -1 before
\* write_scaffold ran, 0 for Ok and k when the k-th file system operation
\* failed; trace lists what the task did and asked the host to do.
SpawnedFlow ==
    [ app_name           |-> app_name,
      framework          |-> framework,
      template           |-> template,
      custom_description |-> custom_description,
      generate_docs      |-> generate_docs,
      contract_filename  |-> contract_filename(template),
      prompt_text        |-> PromptText(framework, template, custom_description,
                                        contract_filename(template)),
      pc                 |-> "picker",
      result             |-> "pending",
      selected_base      |-> <<>>,
      scaffold_result    |-> -1,
      project_path       |-> <<>>,
      open_result        |-> "pending",
      contract_result    |-> "pending",
      trace              |-> <<Event("prompt_for_paths", <<>>, <<"Select folder for project">>)>> ]

\* A create_project that leaves the modal open.
create_project_KeepsModal ==
    /\ flows' = Append(flows, SpawnedFlow)
    /\ dismissed' = dismissed

\* fn create_project: the synchronous part, up to cx.emit(DismissEvent).  Its
\* own self.step = Creating (line 204) is overwritten by the value of the match
\* arm that called it, which next_step assigns.
create_project ==
    /\ flows' = Append(flows, SpawnedFlow)
    /\ dismissed' = dismissed + 1

\* A next_step that already generates from Framework.
CallsCreateProject_FromFramework(s) == s \in {"Framework", "Template", "Creating"}

\* The match of next_step: whether the arm calls create_project.
CallsCreateProject(s) == s \in {"Template", "Creating"}

\* A next_step that skips the framework choice.
NextStepOf_Skipping(s) ==
    CASE s = "AppName"   -> "Template"
      [] s = "Framework" -> "Template"
      [] s = "Template"  -> "Creating"
      [] s = "Creating"  -> "Creating"

\* The match of next_step: the value assigned to self.step.
NextStepOf(s) ==
    CASE s = "AppName"   -> "Framework"
      [] s = "Framework" -> "Template"
      [] s = "Template"  -> "Creating"
      [] s = "Creating"  -> "Creating"

\* fn next_step.  max_flows bounds the tasks one wizard may spawn.
next_step(max_flows) ==
    /\ CallsCreateProject(step) => Len(flows) < max_flows
    /\ IF CallsCreateProject(step)
       THEN create_project
       ELSE UNCHANGED <<flows, dismissed, slash_command>>
    /\ step' = NextStepOf(step)
    /\ UNCHANGED <<framework, template, generate_docs, app_name_input,
                   custom_description_input, workspace_alive, slash_command>>

\* A previous_step that leaves Creating for Framework.
PreviousStepOf_Skipping(s) ==
    CASE s = "AppName"   -> "AppName"
      [] s = "Framework" -> "AppName"
      [] s = "Template"  -> "Framework"
      [] s = "Creating"  -> "Framework"

\* A previous_step that goes back to the start.
PreviousStepOf_ToStart(s) ==
    CASE s = "AppName"   -> "AppName"
      [] s = "Framework" -> "AppName"
      [] s = "Template"  -> "AppName"
      [] s = "Creating"  -> "Template"

\* The match of previous_step.
PreviousStepOf(s) ==
    CASE s = "AppName"   -> "AppName"
      [] s = "Framework" -> "AppName"
      [] s = "Template"  -> "Framework"
      [] s = "Creating"  -> "Template"

\* fn previous_step
previous_step ==
    /\ step' = PreviousStepOf(step)
    /\ UNCHANGED <<framework, template, generate_docs, app_name_input,
                   custom_description_input, dismissed, workspace_alive, flows, slash_command>>

(***************************************************************************)
(* The spawned task (lines 267-407).  It is polled on the main thread, so  *)
(* the code between two awaits is one step.                                *)
(***************************************************************************)
\* A toast in the workspace the wizard was opened in: shown only if
\* old_workspace.upgrade() still yields it.
OldWorkspaceToast(text, path) ==
    IF workspace_alive THEN <<Event("toast_warning", path, text)>> ELSE <<>>

\* picker.await failed: log_err, return (lines 268-271)
PickerCanceled(i) ==
    flows' = [flows EXCEPT
                ![i].pc = "done",
                ![i].result = "Canceled",
                ![i].trace = @ \o <<Event("log_error", <<>>, <<"picker canceled">>)>>]

\* A task that takes "nothing selected" for the working directory and starts
\* the project folder there.
PickerNothingSelected_WritesAnyway(i, tag) ==
    flows' = [flows EXCEPT
                ![i].pc = "done",
                ![i].result = tag,
                ![i].trace = @ \o <<Event("create_dir_all", <<"bitcoin-app">>, <<>>)>>
                               \o OldWorkspaceToast(<<"No folder selected; project not created">>, <<>>)]

\* A task that asks for the picker again when nothing was selected.
PickerNothingSelected_AsksAgain(i, tag) ==
    flows' = [flows EXCEPT ![i].result = tag]

\* Ok(_): nothing selected (lines 275-290)
PickerNothingSelected(i, tag) ==
    flows' = [flows EXCEPT
                ![i].pc = "done",
                ![i].result = tag,
                ![i].trace = @ \o OldWorkspaceToast(<<"No folder selected; project not created">>, <<>>)]

\* Err(err) (lines 291-307)
PickerFailed(i) ==
    flows' = [flows EXCEPT
                ![i].pc = "done",
                ![i].result = "Err",
                ![i].trace = @ \o <<Event("log_error", <<>>, <<"Folder picker failed: ", "picker error">>)>>
                               \o OldWorkspaceToast(<<"Folder picker failed: ", "picker error">>, <<>>)]

\* The events of the operations write_scaffold performed.
PerformedEvents(ops) == [k \in 1..Len(ops) |-> Event(ops[k].kind, ops[k].path, ops[k].text)]

\* Ok(path) (lines 341-357): ask the host to open the project as a workspace.
\* cx.update fails once the wizard's window is gone.
ScaffoldWritten(i, ran, written, project_path) ==
    IF ~workspace_alive
    THEN flows' = [flows EXCEPT ![i] =
             [ran EXCEPT
                !.pc = "done",
                !.project_path = project_path,
                !.trace = @ \o written
                            \o <<Event("log_error", <<>>, <<"Failed to spawn open_paths task">>)>>]]
    ELSE flows' = [flows EXCEPT ![i] =
             [ran EXCEPT
                !.pc = "open_paths",
                !.project_path = project_path,
                !.trace = @ \o written \o <<Event("open_paths", project_path, <<>>)>>]]

\* A task that goes on to open the workspace although write_scaffold failed.
ScaffoldFailed_OpensAnyway(i, ran, written, context, named) ==
    ScaffoldWritten(i, ran, written, ran.selected_base)

\* Err(err) (lines 322-338): log, toast, return.
ScaffoldFailed(i, ran, written, context, named) ==
    flows' = [flows EXCEPT ![i] =
        [ran EXCEPT
           !.pc = "done",
           !.trace = @ \o written
                       \o <<Event("log_error", named, <<"Failed to create project: ", context>>)>>
                       \o OldWorkspaceToast(<<"Failed to create project: ", context>>, named)]]

\* A task that reads the wizard's fields when it runs instead of the values
\* captured when it was spawned.
PickerSelected_ReadsWizard(i, selected_base, fail_at) ==
    LET fl == flows[i]
        scaffold_result ==
            write_scaffold(app_name, selected_base, framework, template,
                           custom_description, generate_docs, fl.prompt_text, fail_at)
        written == PerformedEvents(scaffold_result.performed)
        ran == [fl EXCEPT !.result = "Some", !.selected_base = selected_base,
                          !.scaffold_result = fail_at]
    IN  IF scaffold_result.ok
        THEN ScaffoldWritten(i, ran, written, scaffold_result.project_path)
        ELSE ScaffoldFailed(i, ran, written, scaffold_result.context, scaffold_result.named)

\* A task that keeps an earlier run's folder by numbering its own.
PickerSelected_NumbersRuns(i, selected_base, fail_at) ==
    LET fl == flows[i]
        name == IF i = 1 THEN fl.app_name ELSE fl.app_name \o <<"-", "2">>
        scaffold_result ==
            write_scaffold(name, selected_base, fl.framework, fl.template,
                           fl.custom_description, fl.generate_docs, fl.prompt_text, fail_at)
        written == PerformedEvents(scaffold_result.performed)
        ran == [fl EXCEPT !.result = "Some", !.selected_base = selected_base,
                          !.scaffold_result = fail_at]
    IN  IF scaffold_result.ok
        THEN ScaffoldWritten(i, ran, written, scaffold_result.project_path)
        ELSE ScaffoldFailed(i, ran, written, scaffold_result.context, scaffold_result.named)

\* Ok(Some(paths)), paths not empty: write_scaffold with the captured values
\* (lines 273-274, 310-339).
PickerSelected(i, selected_base, fail_at) ==
    LET fl == flows[i]
        scaffold_result ==
            write_scaffold(fl.app_name, selected_base, fl.framework, fl.template,
                           fl.custom_description, fl.generate_docs, fl.prompt_text, fail_at)
        written == PerformedEvents(scaffold_result.performed)
        ran == [fl EXCEPT !.result = "Some", !.selected_base = selected_base,
                          !.scaffold_result = fail_at]
    IN  IF scaffold_result.ok
        THEN ScaffoldWritten(i, ran, written, scaffold_result.project_path)
        ELSE ScaffoldFailed(i, ran, written, scaffold_result.context, scaffold_result.named)

NumScaffoldOps(i, selected_base) ==
    Len(ScaffoldOps(flows[i].app_name, selected_base, flows[i].framework, flows[i].template,
                    flows[i].custom_description, flows[i].generate_docs, flows[i].prompt_text))

\* The task resumes with the picker's answer.
PickerResolves(i) ==
    /\ flows[i].pc = "picker"
    /\ \/ PickerCanceled(i)
       \/ PickerFailed(i)
       \/ \E tag \in {"None", "Empty"} : PickerNothingSelected(i, tag)
       \/ \E selected_base \in BaseDirs :
             \E fail_at \in 0..NumScaffoldOps(i, selected_base) :
                PickerSelected(i, selected_base, fail_at)
    /\ UNCHANGED <<wizard_vars, workspace_alive, slash_command>>

\* A task that goes on to open the contract although the workspace did not open.
OpenPathsFailed_Continues(i) ==
    flows' = [flows EXCEPT
                ![i].pc = "open_contract",
                ![i].open_result = "Err",
                ![i].trace = @ \o <<Event("log_error", <<>>, <<"Failed to open workspace">>),
                                    Event("open_abs_path", flows[i].project_path, <<>>)>>]

\* A task that asks for the workspace again when it did not open.
OpenPathsFailed_Retries(i) ==
    flows' = [flows EXCEPT
                ![i].open_result = "Err",
                ![i].trace = @ \o <<Event("log_error", <<>>, <<"Failed to open workspace">>),
                                    Event("open_paths", flows[i].project_path, <<>>)>>]

\* open_task.await failed (lines 361-364)
OpenPathsFailed(i) ==
    flows' = [flows EXCEPT
                ![i].pc = "done",
                ![i].open_result = "Err",
                ![i].trace = Append(@, Event("log_error", <<>>, <<"Failed to open workspace">>))]

\* A task that looks for the contract in the project root.
OpenPathsOpened_FromRoot(i, window_open) ==
    LET contract_path == Path_join(flows[i].project_path, <<flows[i].contract_filename>>)
    IN  IF window_open
        THEN flows' = [flows EXCEPT
                         ![i].pc = "open_contract",
                         ![i].open_result = "Ok",
                         ![i].trace = Append(@, Event("open_abs_path", contract_path, <<>>))]
        ELSE flows' = [flows EXCEPT ![i].pc = "done", ![i].open_result = "Ok"]

\* open_task.await gave the new window (lines 359-377).  If that window has
\* been closed again, this and every later update of it fail, and nothing is
\* awaited.
OpenPathsOpened(i, window_open) ==
    LET contract_path ==
            Path_join(Path_join(flows[i].project_path, <<"contracts">>),
                      <<flows[i].contract_filename>>)
    IN  IF window_open
        THEN flows' = [flows EXCEPT
                         ![i].pc = "open_contract",
                         ![i].open_result = "Ok",
                         ![i].trace = Append(@, Event("open_abs_path", contract_path, <<>>))]
        ELSE flows' = [flows EXCEPT ![i].pc = "done", ![i].open_result = "Ok"]

\* The task resumes with the result of open_paths.
OpenPathsResolves(i) ==
    /\ flows[i].pc = "open_paths"
    /\ \/ OpenPathsFailed(i)
       \/ \E window_open \in BOOLEAN : OpenPathsOpened(i, window_open)
    /\ UNCHANGED <<wizard_vars, workspace_alive, slash_command>>

\* A task that formats the prompt again, without the description, when it
\* injects it.
ContractAnswered_DefaultPrompt(i, ok, window_open, panel) ==
    flows' = [flows EXCEPT
                ![i].pc = "done",
                ![i].contract_result = IF ok THEN "Ok" ELSE "Err",
                ![i].trace = @
                    \o (IF ok THEN <<>>
                        ELSE <<Event("log_error", <<>>, <<"Failed to open contract file">>)>>)
                    \o (IF window_open
                        THEN <<Event("toggle_panel_focus", <<>>, <<>>)>>
                             \o (IF panel
                                 THEN <<Event("set_prompt_text", <<>>,
                                              PromptText(flows[i].framework, flows[i].template,
                                                         None, flows[i].contract_filename))>>
                                 ELSE <<>>)
                             \o <<Event("toast_sparkle", <<>>,
                                        <<"Created \"", Str(flows[i].app_name),
                                          "\" - ready to build with AI!">>)>>
                        ELSE <<>>)]

\* A task that gives up when the contract file does not open.
ContractAnswered_StopsOnFailure(i, ok, window_open, panel) ==
    flows' = [flows EXCEPT
                ![i].pc = "done",
                ![i].contract_result = IF ok THEN "Ok" ELSE "Err",
                ![i].trace = @
                    \o (IF ok
                        THEN (IF window_open
                              THEN <<Event("toggle_panel_focus", <<>>, <<>>)>>
                                   \o (IF panel
                                       THEN <<Event("set_prompt_text", <<>>, flows[i].prompt_text)>>
                                       ELSE <<>>)
                                   \o <<Event("toast_sparkle", <<>>,
                                              <<"Created \"", Str(flows[i].app_name),
                                                "\" - ready to build with AI!">>)>>
                              ELSE <<>>)
                        ELSE <<Event("log_error", <<>>, <<"Failed to open contract file">>)>>)]

\* The rest of the task once contract_task.await has answered (lines 379-406):
\* the failure is logged, the agent panel gets the prompt if the workspace has
\* one, and the success toast is shown.
ContractAnswered(i, ok, window_open, panel) ==
    flows' = [flows EXCEPT
                ![i].pc = "done",
                ![i].contract_result = IF ok THEN "Ok" ELSE "Err",
                ![i].trace = @
                    \o (IF ok THEN <<>>
                        ELSE <<Event("log_error", <<>>, <<"Failed to open contract file">>)>>)
                    \o (IF window_open
                        THEN <<Event("toggle_panel_focus", <<>>, <<>>)>>
                             \o (IF panel
                                 THEN <<Event("set_prompt_text", <<>>, flows[i].prompt_text)>>
                                 ELSE <<>>)
                             \o <<Event("toast_sparkle", <<>>,
                                        <<"Created \"", Str(flows[i].app_name),
                                          "\" - ready to build with AI!">>)>>
                        ELSE <<>>)]

\* The task resumes with the result of opening the contract.
ContractResolves(i) ==
    /\ flows[i].pc = "open_contract"
    /\ \E ok \in BOOLEAN, window_open \in BOOLEAN, panel \in BOOLEAN :
          ContractAnswered(i, ok, window_open, panel)
    /\ UNCHANGED <<wizard_vars, workspace_alive, slash_command>>

\* The user closes the window the wizard was opened in.
CloseWorkspace ==
    /\ workspace_alive
    /\ workspace_alive' = FALSE
    /\ UNCHANGED <<wizard_vars, flows, slash_command>>

(***************************************************************************)
(* Specifications.                                                         *)
(***************************************************************************)
\* BitcoinAppWizard::new
Init ==
    /\ step = "AppName"
    /\ framework = Framework_default
    /\ template = Template_default
    /\ generate_docs = TRUE
    /\ app_name_input = <<>>
    /\ custom_description_input = <<>>
    /\ dismissed = 0
    /\ workspace_alive = TRUE
    /\ flows = <<>>
    /\ slash_command = NoCommand

\* Spec: the wizard controller.  Every handler may be called in every state;
\* the tasks it spawns are recorded and wait for the picker.
Next ==
    \/ \E f \in {"React", "Vue"} : select_framework(f)
    \/ \E t \in {"HelloWorld", "Custom"} : select_template(t)
    \/ toggle_docs
    \/ \E text \in NameInputs : edit_app_name(text)
    \/ next_step(MaxFlows)
    \/ previous_step

Spec == Init /\ [][Next]_vars

\* SpecFlow: one wizard session with the first task it spawns followed through
\* every answer of the picker, the file system and the host.  Tasks share
\* nothing but workspace_alive, so the first one stands for each.
FlowSteps ==
    \/ \E i \in 1..Len(flows) : PickerResolves(i)
    \/ \E i \in 1..Len(flows) : OpenPathsResolves(i)
    \/ \E i \in 1..Len(flows) : ContractResolves(i)

NextFlow ==
    \/ \E t \in {"HelloWorld", "Custom"} : select_template(t)
    \/ toggle_docs
    \/ \E text \in NameInputs : edit_app_name(text)
    \/ next_step(1)
    \/ previous_step
    \/ FlowSteps
    \/ CloseWorkspace

SpecFlow == Init /\ [][NextFlow]_vars

\* SpecFreeze: as SpecFlow, with every handler and both text fields being used
\* before and while the task runs, in a workspace that stays open.
NextFreeze ==
    \/ \E f \in {"React", "Vue"} : select_framework(f)
    \/ \E t \in {"HelloWorld", "Custom"} : select_template(t)
    \/ toggle_docs
    \/ \E text \in NameInputs : edit_app_name(text)
    \/ \E text \in DescriptionInputs : edit_custom_description(text)
    \/ next_step(1)
    \/ previous_step
    \/ FlowSteps

SpecFreeze == Init /\ [][NextFreeze]_vars

\* Texts typed into the app-name field before generation is triggered: none,
\* only whitespace, and a name with whitespace around it.
TypedNames == { <<>>, <<" ">>, <<" ", "m", "y", "-", "a", "p", "p", " ">> }

\* SpecGenerate: generation triggered once from the Template step, for every
\* selection the handlers and the two text fields can have produced by then,
\* and the task followed through every answer of the picker, the file system
\* and the host.
InitGenerate ==
    /\ step = "Template"
    /\ framework \in Framework
    /\ template \in Template
    /\ generate_docs \in BOOLEAN
    /\ app_name_input \in TypedNames
    /\ custom_description_input \in DescriptionInputs
    /\ dismissed = 0
    /\ workspace_alive = TRUE
    /\ flows = <<>>
    /\ slash_command = NoCommand

NextGenerate ==
    \/ next_step(1)
    \/ FlowSteps

SpecGenerate == InitGenerate /\ [][NextGenerate]_vars

\* SpecRerun: generation triggered from the Template step and then again from
\* Creating, with the documentation toggle possibly used in between, and
\* every task followed through every answer.
InitRerun ==
    /\ step = "Template"
    /\ framework \in {"React", "Svelte"}
    /\ template \in {"HelloWorld", "Custom"}
    /\ generate_docs = TRUE
    /\ app_name_input = <<" ", "m", "y", "-", "a", "p", "p", " ">>
    /\ custom_description_input \in {<<>>, <<"d">>}
    /\ dismissed = 0
    /\ workspace_alive = TRUE
    /\ flows = <<>>
    /\ slash_command = NoCommand

NextRerun ==
    \/ toggle_docs
    \/ next_step(MaxFlows)
    \/ FlowSteps

SpecRerun == InitRerun /\ [][NextRerun]_vars

(***************************************************************************)
(* The rendered wizard: which handler a click or a key can reach at which  *)
(* step.  A disabled button and an element that is not rendered take no    *)
(* click.                                                                  *)
(***************************************************************************)
\* A Back button that is only disabled at the first step.
can_go_back_AfterCreating == step # "AppName"

\* render_actions: can_go_back
can_go_back == step # "AppName" /\ step # "Creating"

\* render_actions: the "back" button
ClickBack ==
    /\ can_go_back
    /\ previous_step

\* render_actions: the "next" button, disabled at Creating
ClickNext ==
    /\ step # "Creating"
    /\ next_step(MaxFlows)

\* render_framework_step: one button per framework
ClickFramework(f) ==
    /\ step = "Framework"
    /\ select_framework(f)

\* render_template_step: one button per template
ClickTemplate(t) ==
    /\ step = "Template"
    /\ select_template(t)

\* render_template_step: the "toggle-docs" button
ClickToggleDocs ==
    /\ step = "Template"
    /\ toggle_docs

\* render_app_name_step: the app-name field
TypeAppName(text) ==
    /\ step = "AppName"
    /\ edit_app_name(text)

\* render_template_step: the description field
TypeDescription(text) ==
    /\ step = "Template"
    /\ edit_custom_description(text)

\* SpecRendered: one wizard driven through what it renders.
NextRendered ==
    \/ ClickBack
    \/ ClickNext
    \/ \E f \in Framework : ClickFramework(f)
    \/ \E t \in Template : ClickTemplate(t)
    \/ ClickToggleDocs
    \/ \E text \in NameInputs : TypeAppName(text)
    \/ \E text \in DescriptionInputs : TypeDescription(text)

SpecRendered == Init /\ [][NextRendered]_vars

\* Names that are paths: absolute, with a separator, and with a parent
\* component; and a plain one.
PathNames ==
    { <<"/", "x">>, <<"a", "/", "b">>, <<".", ".", "/", "x">>,
      <<" ", "m", "y", "-", "a", "p", "p", " ">> }

\* SpecPaths: SpecGenerate for names that are paths.
InitPaths ==
    /\ step = "Template"
    /\ framework = Framework_default
    /\ template = Template_default
    /\ generate_docs \in BOOLEAN
    /\ app_name_input \in PathNames
    /\ custom_description_input = <<>>
    /\ dismissed = 0
    /\ workspace_alive = TRUE
    /\ flows = <<>>
    /\ slash_command = NoCommand

SpecPaths == InitPaths /\ [][NextGenerate]_vars

(***************************************************************************)
(* The claims.                                                             *)
(***************************************************************************)
StepIndex(s) ==
    CASE s = "AppName" -> 1 [] s = "Framework" -> 2 [] s = "Template" -> 3 [] s = "Creating" -> 4

\* The wizard's selection and its two texts.
selection == <<framework, template, generate_docs, app_name_input, custom_description_input>>

\* C1: every call of next_step moves the step as the transition table says:
\* AppName to Framework, Framework to Template, Template to Creating, and
\* Creating to Creating; no step of the program moves the wizard forward by
\* more than one step or to anything that is not a step.
C1_AdvanceFollowsTable ==
    [][ /\ next_step(MaxFlows) =>
             \/ step = "AppName"   /\ step' = "Framework"
             \/ step = "Framework" /\ step' = "Template"
             \/ step = "Template"  /\ step' = "Creating"
             \/ step = "Creating"  /\ step' = "Creating"
        /\ step' \in WizardStep
        /\ StepIndex(step') <= StepIndex(step) + 1 ]_vars

\* C1: next_step was called at Creating, and the wizard is still there.
C1_Witness ==
    /\ step = "Creating"
    /\ Len(flows) >= 2

\* C2: every call of previous_step moves the step as the inverse table says
\* (AppName stays, Framework to AppName, Template to Framework, Creating to
\* Template), spawns no task, emits no DismissEvent and leaves framework,
\* template, generate_docs and both texts as they were.
C2_RetreatFollowsTable ==
    [][ previous_step =>
          /\ \/ step = "AppName"   /\ step' = "AppName"
             \/ step = "Framework" /\ step' = "AppName"
             \/ step = "Template"  /\ step' = "Framework"
             \/ step = "Creating"  /\ step' = "Template"
          /\ flows' = flows
          /\ dismissed' = dismissed
          /\ selection' = selection ]_vars

\* C2: previous_step was called at Creating: generation ran once and the
\* wizard is back at Template with the selection the task was spawned with.
C2_Witness ==
    /\ step = "Template"
    /\ Len(flows) = 1
    /\ flows[1].framework = framework
    /\ flows[1].template = template
    /\ flows[1].generate_docs = generate_docs
    /\ flows[1].app_name = app_name_input

\* C3: a step of the program spawns a task exactly when it is a call of
\* next_step at Template or Creating, and then it spawns exactly one, asks
\* for the picker once and leaves the wizard at Creating; next_step at AppName
\* or Framework, previous_step, select_framework, select_template, toggle_docs
\* and the text edits spawn none.
C3_GenerationTriggeredByAdvance ==
    [][ /\ Len(flows') \in {Len(flows), Len(flows) + 1}
        /\ SubSeq(flows', 1, Len(flows)) = flows
        /\ (Len(flows') = Len(flows) + 1)
              <=> (next_step(MaxFlows) /\ step \in {"Template", "Creating"})
        /\ (Len(flows') = Len(flows) + 1) =>
              /\ step' = "Creating"
              /\ flows'[Len(flows')].pc = "picker"
              /\ Len(flows'[Len(flows')].trace) = 1
              /\ flows'[Len(flows')].trace[1].kind = "prompt_for_paths" ]_vars

\* C3: generation was triggered twice, with a toggle_docs in between that
\* triggered nothing.
C3_Witness ==
    /\ Len(flows) = 2
    /\ flows[1].generate_docs # flows[2].generate_docs
    /\ step = "Creating"

(***************************************************************************)
(* Reading a task's trace.                                                 *)
(***************************************************************************)
FsKinds == {"create_dir_all", "write"}

HostRequestKinds == {"open_paths", "open_abs_path", "toggle_panel_focus", "set_prompt_text"}

HasKind(tr, kind) == \E j \in 1..Len(tr) : tr[j].kind = kind

IsFsEvent(e) == e.kind \in FsKinds

FsEvents(tr) == SelectSeq(tr, IsFsEvent)

IsWrite(e) == e.kind = "write"

Writes(tr) == SelectSeq(tr, IsWrite)

\* What the task has done since it asked for the picker.
AfterPickerRequest(tr) == Tail(tr)

HasLog(tr, head) ==
    \E j \in 1..Len(tr) : tr[j].kind = "log_error" /\ tr[j].text[1] = head

HasWarning(tr, head) ==
    \E j \in 1..Len(tr) : tr[j].kind = "toast_warning" /\ tr[j].text[1] = head

NotCreatedNotice ==
    Event("toast_warning", <<>>, <<"No folder selected; project not created">>)

\* The file system operations write_scaffold has to perform for task fl.
FlowOps(fl) ==
    ScaffoldOps(fl.app_name, fl.selected_base, fl.framework, fl.template,
                fl.custom_description, fl.generate_docs, fl.prompt_text)

\* The (path, contents) list write_scaffold builds for task fl.
FlowFiles(fl) ==
    ScaffoldFiles(ProjectPath(fl.app_name, fl.selected_base), fl.framework, fl.template,
                  fl.custom_description, fl.generate_docs, fl.prompt_text)

NothingSelected(fl) == fl.pc = "done" /\ fl.result \in {"None", "Empty"}

\* C4 as claimed: when the picker returns no selection, the one thing the
\* task does is show a single "not created" notice.
C4_NoSelectionOnlyNotice ==
    \A i \in 1..Len(flows) :
        NothingSelected(flows[i]) => AfterPickerRequest(flows[i].trace) = <<NotCreatedNotice>>

\* C4 as amended: when the picker returns no selection (None or an empty
\* list), the task performs no file system operation and asks the host for no
\* workspace-open, file-open or prompt injection; the only thing it may do is
\* show one "not created" notice, and it shows it whenever the workspace the
\* wizard was opened in still exists.
C4_NoSelectionWritesNothing ==
    \A i \in 1..Len(flows) :
        NothingSelected(flows[i]) =>
            /\ FsEvents(flows[i].trace) = <<>>
            /\ \A k \in HostRequestKinds : ~HasKind(flows[i].trace, k)
            /\ AfterPickerRequest(flows[i].trace) \in {<<>>, <<NotCreatedNotice>>}
            /\ workspace_alive => AfterPickerRequest(flows[i].trace) = <<NotCreatedNotice>>

\* C4: the picker returned an empty list and the notice was shown.
C4_Witness ==
    \E i \in 1..Len(flows) :
        /\ flows[i].pc = "done"
        /\ flows[i].result = "Empty"
        /\ flows[i].trace = <<Event("prompt_for_paths", <<>>, <<"Select folder for project">>),
                              NotCreatedNotice>>

\* C5 as claimed: whenever the picker fails, by the awaited prompt failing or
\* by yielding an error value, the task performs no file system operation and
\* shows the failure as a notice.
C5_PickerFailureIsSurfaced ==
    \A i \in 1..Len(flows) :
        (flows[i].pc = "done" /\ flows[i].result \in {"Canceled", "Err"}) =>
            /\ FsEvents(flows[i].trace) = <<>>
            /\ \E j \in 1..Len(flows[i].trace) : flows[i].trace[j].kind = "toast_warning"

\* The place of an event in the order of the creation flow; 0 for the log
\* lines and warnings, which report a failure wherever it happens.
Rank(e) ==
    CASE e.kind = "prompt_for_paths"   -> 1
      [] e.kind \in FsKinds            -> 2
      [] e.kind = "open_paths"         -> 3
      [] e.kind = "open_abs_path"      -> 4
      [] e.kind = "toggle_panel_focus" -> 5
      [] e.kind = "set_prompt_text"    -> 6
      [] e.kind = "toast_sparkle"      -> 7
      [] OTHER                         -> 0

InFlowOrder(tr) ==
    \A a, b \in 1..Len(tr) :
        (a < b /\ Rank(tr[a]) > 0 /\ Rank(tr[b]) > 0) => Rank(tr[a]) <= Rank(tr[b])

\* write_scaffold returned Ok: every operation of the file set was performed.
WholeFileSetWritten(fl) ==
    /\ fl.scaffold_result = 0
    /\ FsEvents(fl.trace) = PerformedEvents(FlowOps(fl))

\* The part of the order every task keeps: the external steps come in the
\* fixed order; the file system is touched only once the picker has returned a
\* directory; the workspace-open is asked for only after the whole file set
\* was written; the file-open only after the workspace opened.
RequiredStepsInOrder(fl) ==
    /\ fl.trace[1].kind = "prompt_for_paths"
    /\ InFlowOrder(fl.trace)
    /\ FsEvents(fl.trace) # <<>> => (fl.result = "Some" /\ fl.selected_base \in BaseDirs)
    /\ HasKind(fl.trace, "open_paths") => WholeFileSetWritten(fl)
    /\ HasKind(fl.trace, "open_abs_path") =>
          (HasKind(fl.trace, "open_paths") /\ fl.open_result = "Ok")

\* C6 as claimed: the steps come in the fixed order and each one happens only
\* after the one before it completed successfully, so the prompt is injected
\* only after the contract file opened and the success notice is shown only
\* after the prompt was injected.
C6_EachStepAfterPreviousSucceeded ==
    \A i \in 1..Len(flows) :
        /\ RequiredStepsInOrder(flows[i])
        /\ HasKind(flows[i].trace, "set_prompt_text") => flows[i].contract_result = "Ok"
        /\ HasKind(flows[i].trace, "toast_sparkle") => HasKind(flows[i].trace, "set_prompt_text")

\* C6 as amended: the steps come in the fixed order; the scaffold write starts
\* only after the picker returned a directory, the workspace-open is requested
\* only after the whole file set was written, and the file-open only after the
\* workspace opened; the prompt injection and the success notice come only
\* after the file-open was requested and has answered, whatever its answer,
\* and so only after the file set was written and the workspace opened.
C6_StepsInOrder ==
    \A i \in 1..Len(flows) :
        /\ RequiredStepsInOrder(flows[i])
        /\ \A k \in {"toggle_panel_focus", "set_prompt_text", "toast_sparkle"} :
              HasKind(flows[i].trace, k) =>
                  /\ HasKind(flows[i].trace, "open_abs_path")
                  /\ flows[i].contract_result \in {"Ok", "Err"}
                  /\ flows[i].open_result = "Ok"
                  /\ WholeFileSetWritten(flows[i])

\* C6: a flow went through all six steps.
C6_Witness ==
    \E i \in 1..Len(flows) :
        /\ flows[i].pc = "done"
        /\ flows[i].contract_result = "Ok"
        /\ \A k \in {"prompt_for_paths", "write", "open_paths", "open_abs_path",
                     "set_prompt_text", "toast_sparkle"} : HasKind(flows[i].trace, k)

ScaffoldWriteFailed(fl) == fl.pc = "done" /\ fl.scaffold_result > 0

\* The workspace did not open: open_paths failed, or could not be asked for.
WorkspaceOpenFailed(fl) ==
    /\ fl.pc = "done"
    /\ fl.scaffold_result = 0
    /\ fl.open_result = "Err" \/ ~HasKind(fl.trace, "open_paths")

NothingAfterScaffold(fl) ==
    \A k \in {"open_paths", "open_abs_path", "toggle_panel_focus", "set_prompt_text",
              "toast_sparkle"} : ~HasKind(fl.trace, k)

NothingAfterWorkspaceOpen(fl) ==
    \A k \in {"open_abs_path", "toggle_panel_focus", "set_prompt_text", "toast_sparkle"} :
        ~HasKind(fl.trace, k)

\* C7 as claimed: a failed scaffold write shows a "Failed to create project"
\* notice and nothing follows it; a failed workspace-open is reported, nothing
\* follows it and the files written stay.
C7_FailureShowsNoticeAndSkipsRest ==
    \A i \in 1..Len(flows) :
        /\ ScaffoldWriteFailed(flows[i]) =>
              /\ HasWarning(flows[i].trace, "Failed to create project: ")
              /\ NothingAfterScaffold(flows[i])
        /\ WorkspaceOpenFailed(flows[i]) =>
              /\ NothingAfterWorkspaceOpen(flows[i])
              /\ FsEvents(flows[i].trace) = PerformedEvents(FlowOps(flows[i]))

\* C7 as amended: a failed scaffold write is logged as "Failed to create
\* project", is shown as a notice whenever the workspace the wizard was opened
\* in still exists, and no workspace-open, file-open, prompt injection or
\* success notice follows; a failed workspace-open is logged, no file-open,
\* prompt injection or success notice follows, and every file written stays;
\* in both cases the task ends normally, with the operations performed before
\* the failure left as they are.
C7_FailureSkipsRest ==
    \A i \in 1..Len(flows) :
        /\ ScaffoldWriteFailed(flows[i]) =>
              /\ HasLog(flows[i].trace, "Failed to create project: ")
              /\ workspace_alive => HasWarning(flows[i].trace, "Failed to create project: ")
              /\ NothingAfterScaffold(flows[i])
              /\ FsEvents(flows[i].trace)
                    = PerformedEvents(SubSeq(FlowOps(flows[i]), 1, flows[i].scaffold_result - 1))
        /\ WorkspaceOpenFailed(flows[i]) =>
              /\ \/ HasLog(flows[i].trace, "Failed to open workspace")
                 \/ HasLog(flows[i].trace, "Failed to spawn open_paths task")
              /\ NothingAfterWorkspaceOpen(flows[i])
              /\ FsEvents(flows[i].trace) = PerformedEvents(FlowOps(flows[i]))

\* C7: one write of the scaffold failed after others had succeeded, and the
\* notice was shown.
C7_Witness ==
    \E i \in 1..Len(flows) :
        /\ ScaffoldWriteFailed(flows[i])
        /\ Writes(flows[i].trace) # <<>>
        /\ HasWarning(flows[i].trace, "Failed to create project: ")

\* The directories write_scaffold creates first, as its error contexts name them.
RequiredFolders == <<"contracts", "src/components", "src/lib", "src/services">>

Captured(fl) ==
    <<fl.app_name, fl.framework, fl.template, fl.custom_description, fl.generate_docs,
      fl.contract_filename, fl.prompt_text>>

\* Everything task fl has written, opened and injected is what its captured
\* name, framework, template, description and generate_docs determine.
EffectsOfCaptured(fl) ==
    LET contract == contract_filename(fl.template)
        prompt == PromptText(fl.framework, fl.template, fl.custom_description, contract)
        ops == ScaffoldOps(fl.app_name, fl.selected_base, fl.framework, fl.template,
                           fl.custom_description, fl.generate_docs, prompt)
        project_path == ProjectPath(fl.app_name, fl.selected_base)
        tr == fl.trace
    IN  /\ fl.scaffold_result = 0 => FsEvents(tr) = PerformedEvents(ops)
        /\ fl.scaffold_result > 0 =>
              FsEvents(tr) = PerformedEvents(SubSeq(ops, 1, fl.scaffold_result - 1))
        /\ fl.scaffold_result = -1 => FsEvents(tr) = <<>>
        /\ \A j \in 1..Len(tr) :
              /\ tr[j].kind = "open_paths" => tr[j].path = project_path
              /\ tr[j].kind = "open_abs_path" =>
                    tr[j].path = project_path \o <<"contracts", contract>>
              /\ tr[j].kind = "set_prompt_text" => tr[j].text = prompt
              /\ tr[j].kind = "toast_sparkle" => tr[j].text[2] = Str(fl.app_name)

\* C9: a task captures the name, framework, template, description (None when
\* its trimmed text is empty) and generate_docs the wizard has at the moment
\* next_step triggers generation; no later handler call or text edit changes
\* what it captured; and what the task writes, opens and injects is determined
\* by the captured values alone.
C9_FlowUsesFrozenSelection ==
    /\ [](\A i \in 1..Len(flows) : EffectsOfCaptured(flows[i]))
    /\ [][ /\ \A i \in 1..Len(flows) :
                 i <= Len(flows') /\ Captured(flows'[i]) = Captured(flows[i])
           /\ Len(flows') > Len(flows) =>
                 LET fl == flows'[Len(flows')]
                 IN  /\ fl.app_name = app_name_input
                     /\ fl.framework = framework
                     /\ fl.template = template
                     /\ fl.generate_docs = generate_docs
                     /\ fl.custom_description
                           = IF \A j \in 1..Len(custom_description_input) :
                                    IsWhitespace(custom_description_input[j])
                             THEN None ELSE Some(custom_description_input) ]_vars

\* C9: a task is in flight, past the scaffold write and the workspace-open,
\* and meanwhile every field of the wizard was changed and the wizard retreated.
C9_Witness ==
    \E i \in 1..Len(flows) :
        /\ flows[i].pc = "open_contract"
        /\ flows[i].framework # framework
        /\ flows[i].template # template
        /\ flows[i].generate_docs # generate_docs
        /\ flows[i].app_name # app_name_input
        /\ flows[i].custom_description # custom_description
        /\ step = "Framework"

TaskStep(i) == PickerResolves(i) \/ OpenPathsResolves(i) \/ ContractResolves(i)

\* C10: the wizard emits its DismissEvent in the call that triggers generation
\* and asks for the picker, so it is dismissed while the task still waits for
\* the picker's answer; nothing the task does later emits or takes back a
\* dismissal; and the dismissed wizard's task is not cancelled: until it is
\* done it can always take its next step, and it is never dropped.
C10_DismissedAtTriggerFlowRuns ==
    /\ [](dismissed = Len(flows))
    /\ [](\A i \in 1..Len(flows) : flows[i].pc # "done" => ENABLED TaskStep(i))
    /\ [][ /\ (FlowSteps \/ CloseWorkspace) => dismissed' = dismissed
           /\ Len(flows') >= Len(flows) ]_vars

\* C10: the wizard was dismissed once and its task went on to create the
\* project and show the success notice.
C10_Witness ==
    /\ dismissed = 1
    /\ flows[1].pc = "done"
    /\ HasKind(flows[1].trace, "toast_sparkle")

(***************************************************************************)
(* The generated tree.                                                     *)
(***************************************************************************)
\* The positions of a text that hold no whitespace.
Inked(s) == {j \in 1..Len(s) : ~IsWhitespace(s[j])}

Least(S) == CHOOSE j \in S : \A k \in S : j <= k

Greatest(S) == CHOOSE j \in S : \A k \in S : j >= k

\* The name with the whitespace before its first and after its last other
\* character removed, bitcoin-app if there is no other character.
SanitizedName(name) ==
    IF Inked(name) = {} THEN "bitcoin-app"
    ELSE Str(SubSeq(name, Least(Inked(name)), Greatest(Inked(name))))

WriteScaffoldRan(fl) == fl.scaffold_result # -1

Succeeded(fl) == fl.scaffold_result = 0

\* C11: whenever write_scaffold runs, the project folder it creates first, the
\* path it returns and the workspace the task asks the host to open are the
\* selected directory joined with the whitespace-trimmed name, and with
\* bitcoin-app when the trimmed name is empty.
C11_ProjectRootIsSanitizedName ==
    \A i \in 1..Len(flows) :
        LET fl == flows[i]
            root == fl.selected_base \o <<SanitizedName(fl.app_name)>>
            fs == FsEvents(fl.trace)
        IN  WriteScaffoldRan(fl) =>
              /\ fs # <<>> => (fs[1].kind = "create_dir_all" /\ fs[1].path = root)
              /\ Succeeded(fl) => fl.project_path = root
              /\ \A j \in 1..Len(fl.trace) :
                    fl.trace[j].kind = "open_paths" => fl.trace[j].path = root

\* C11: a project was generated from a whitespace-only name, in bitcoin-app.
C11_Witness ==
    \E i \in 1..Len(flows) :
        /\ flows[i].app_name = <<" ">>
        /\ Succeeded(flows[i])
        /\ flows[i].project_path = <<"/", "home", "bitcoin-app">>
        /\ HasKind(flows[i].trace, "open_paths")

\* The paths task fl has written files at.
WrittenPaths(fl) == {Writes(fl.trace)[j].path : j \in 1..Len(Writes(fl.trace))}

FileName(p) == p[Len(p)]

DocNames == {"PRD.md", "tasks.md"}

\* The documentation files of a project.
DocFiles(root) == {root \o <<name>> : name \in DocNames}

\* What was written at path p by task fl.
WrittenAt(fl, p) ==
    {Writes(fl.trace)[j].text : j \in {k \in 1..Len(Writes(fl.trace)) : Writes(fl.trace)[k].path = p}}

\* part occurs in text as a run of consecutive segments.
Contains(text, part) ==
    \E j \in 0..(Len(text) - Len(part)) : SubSeq(text, j + 1, j + Len(part)) = part

\* The paths write_scaffold writes for task fl when generate_docs is docs.
PathsWithDocs(fl, docs) ==
    LET files == ScaffoldFiles(fl.project_path, fl.framework, fl.template,
                               fl.custom_description, docs, fl.prompt_text)
    IN  {files[j].path : j \in 1..Len(files)}

\* C12: after a successful write_scaffold, with generate_docs false no file
\* named PRD.md or tasks.md was written; with generate_docs true both were
\* written in the project root and PRD.md's body is the heading, exactly the
\* prompt text of the task, and a newline; and the other files written are the
\* same ones either value of generate_docs gives.
C12_DocsFollowGenerateDocs ==
    \A i \in 1..Len(flows) :
        LET fl == flows[i]
            root == fl.project_path
        IN  Succeeded(fl) =>
              /\ ~fl.generate_docs =>
                    \A p \in WrittenPaths(fl) : FileName(p) \notin DocNames
              /\ fl.generate_docs =>
                    /\ DocFiles(root) \subseteq WrittenPaths(fl)
                    /\ \A body \in WrittenAt(fl, root \o <<"PRD.md">>) :
                          /\ Contains(body, fl.prompt_text)
                          /\ Len(body) = Len(fl.prompt_text) + 2
                    /\ \A p \in WrittenPaths(fl) : FileName(p) \in DocNames => p \in DocFiles(root)
              /\ WrittenPaths(fl) \ DocFiles(root) = PathsWithDocs(fl, TRUE) \ DocFiles(root)
              /\ WrittenPaths(fl) \ DocFiles(root) = PathsWithDocs(fl, FALSE) \ DocFiles(root)

\* C12: a project was generated with generate_docs false: seven files, none
\* of them PRD.md or tasks.md.
C12_Witness ==
    \E i \in 1..Len(flows) :
        /\ Succeeded(flows[i])
        /\ ~flows[i].generate_docs
        /\ Cardinality(WrittenPaths(flows[i])) = 7
        /\ DocFiles(flows[i].project_path) \cap WrittenPaths(flows[i]) = {}

\* The directories every project has.
RequiredDirs(root) ==
    { root \o <<"contracts">>, root \o <<"src", "components">>,
      root \o <<"src", "lib">>, root \o <<"src", "services">> }

\* The files every project has, the contract aside.
RequiredFiles(root) ==
    { root \o <<".env.example">>, root \o <<"README.md">>, root \o <<"AI_RULES.md">> }

\* p lies below directory d.
Below(p, d) == Len(p) > Len(d) /\ SubSeq(p, 1, Len(d)) = d

\* C13: after a successful write_scaffold, whatever the framework, template
\* and generate_docs, the directories contracts, src/components, src/lib and
\* src/services of the project root were each created before the first file
\* was written; .env.example, README.md and AI_RULES.md were written in the
\* root; and the one file written below contracts is the contract file of the
\* template, written once.
C13_RequiredTreeIsWritten ==
    \A i \in 1..Len(flows) :
        LET fl == flows[i]
            root == fl.project_path
            tr == fl.trace
            contract == root \o <<"contracts", contract_filename(fl.template)>>
        IN  Succeeded(fl) =>
              /\ \A d \in RequiredDirs(root) :
                    \E j \in 1..Len(tr) :
                        /\ tr[j].kind = "create_dir_all"
                        /\ tr[j].path = d
                        /\ \A k \in 1..Len(tr) : tr[k].kind = "write" => j < k
              /\ RequiredFiles(root) \subseteq WrittenPaths(fl)
              /\ {p \in WrittenPaths(fl) : Below(p, root \o <<"contracts">>)} = {contract}
              /\ Cardinality({k \in 1..Len(tr) : tr[k].kind = "write" /\ tr[k].path = contract}) = 1

\* C13: a Tic-Tac-Toe project for Angular was generated without the
\* documentation files.
C13_Witness ==
    \E i \in 1..Len(flows) :
        /\ Succeeded(flows[i])
        /\ flows[i].framework = "Angular"
        /\ flows[i].template = "TicTacToe"
        /\ ~flows[i].generate_docs
        /\ flows[i].project_path \o <<"contracts", "ticTacToe.scrypt.ts">> \in WrittenPaths(flows[i])

(***************************************************************************)
(* The description and the prompt text.                                    *)
(***************************************************************************)
\* The texts task fl has generated: file contents and the injected prompt.
GeneratedTexts(fl) ==
    {fl.trace[j].text : j \in {k \in 1..Len(fl.trace) :
                                   fl.trace[k].kind \in {"write", "set_prompt_text"}}}

\* text holds the description the task captured.
Embeds(text, description) ==
    description # None /\ \E j \in 1..Len(text) : text[j] = Str(description[1])

\* C14 as claimed: a task whose template is not Custom generates no content
\* that holds the description, whatever was typed into the description field.
C14_DescriptionOnlyForCustom ==
    \A i \in 1..Len(flows) :
        flows[i].template # "Custom" =>
            \A text \in GeneratedTexts(flows[i]) : ~Embeds(text, flows[i].custom_description)

\* The prompt text of task fl had no description been typed.
PromptTextWithoutDescription(fl) ==
    PromptText(fl.framework, fl.template, None, contract_filename(fl.template))

\* The file system operations of task fl had no description been typed.
OpsWithoutDescription(fl) ==
    ScaffoldOps(fl.app_name, fl.selected_base, fl.framework, fl.template,
                None, fl.generate_docs, PromptTextWithoutDescription(fl))

IsPrefix(s, t) == Len(s) <= Len(t) /\ SubSeq(t, 1, Len(s)) = s

\* C15: for every template, when the description field holds nothing but
\* whitespace (or nothing), the task captures the description None, and its
\* prompt text, the files it writes with their contents, and the prompt it
\* injects are those of a run with no description.
C15_BlankDescriptionIsAbsent ==
    \A i \in 1..Len(flows) :
        LET fl == flows[i]
        IN  Inked(custom_description_input) = {} =>
              /\ fl.custom_description = None
              /\ fl.prompt_text = PromptTextWithoutDescription(fl)
              /\ WriteScaffoldRan(fl) =>
                    IsPrefix(FsEvents(fl.trace), PerformedEvents(OpsWithoutDescription(fl)))
              /\ Succeeded(fl) =>
                    FsEvents(fl.trace) = PerformedEvents(OpsWithoutDescription(fl))
              /\ \A j \in 1..Len(fl.trace) :
                    fl.trace[j].kind = "set_prompt_text" =>
                        fl.trace[j].text = PromptTextWithoutDescription(fl)

\* C15: a Custom project with documentation was generated and its prompt
\* injected while the description field held a single blank.
C15_Witness ==
    \E i \in 1..Len(flows) :
        /\ custom_description_input = <<" ">>
        /\ flows[i].template = "Custom"
        /\ flows[i].generate_docs
        /\ Succeeded(flows[i])
        /\ HasKind(flows[i].trace, "set_prompt_text")

\* The requests of task fl to open a file.
OpenFileRequests(fl) == {j \in 1..Len(fl.trace) : fl.trace[j].kind = "open_abs_path"}

\* C16: the file a task asks the host to open is contracts/<contract file
\* name of the captured template> in the project root write_scaffold returned,
\* it asks for no other file, and write_scaffold wrote the contract source of
\* that template at that very path in the same run.
C16_PrimaryFileIsWrittenContract ==
    \A i \in 1..Len(flows) :
        LET fl == flows[i]
        IN  /\ Cardinality(OpenFileRequests(fl)) <= 1
            /\ \A j \in OpenFileRequests(fl) :
                  /\ Succeeded(fl)
                  /\ fl.trace[j].path
                        = fl.project_path \o <<"contracts", contract_filename(fl.template)>>
                  /\ WrittenAt(fl, fl.trace[j].path)
                        = {contract_source(fl.template, fl.custom_description)}
                  /\ \E k \in 1..(j - 1) :
                        fl.trace[k].kind = "write" /\ fl.trace[k].path = fl.trace[j].path

\* C16: a task asked the host to open the Counter contract it had written.
C16_Witness ==
    \E i \in 1..Len(flows) :
        /\ flows[i].template = "Counter"
        /\ flows[i].pc = "open_contract"
        /\ \E j \in OpenFileRequests(flows[i]) :
              flows[i].trace[j].path = <<"/", "home", "my-app", "contracts", "counter.scrypt.ts">>

\* The sentence only the description variant of the prompt text has.
ImplementSentence ==
    " frontend and Yours Wallet integration. DO NOT run any CLI commands like 'npm create' or 'npx create-vue'. Instead, EDIT the existing files to implement: "

IsDescriptionVariant(text) == \E j \in 1..Len(text) : text[j] = ImplementSentence

\* text names the contract file: the segment after "... logic in contracts/".
NamesContractFile(text, contract) ==
    \E j \in 2..Len(text) : text[j - 1] = CRITICAL_RULES /\ text[j] = contract

\* C17: the prompt a task injects into the assistant panel is the prompt text
\* it captured when it was spawned, and, with generate_docs, PRD.md holds
\* exactly that text between its heading and its final newline; the text is
\* the description variant, carrying the description, exactly when the
\* captured description is present; and it names the display name of the
\* captured framework and the contract file name of the captured template.
C17_InjectedPromptIsPrdPrompt ==
    \A i \in 1..Len(flows) :
        LET fl == flows[i]
            prd == fl.project_path \o <<"PRD.md">>
        IN  \A j \in 1..Len(fl.trace) :
                fl.trace[j].kind = "set_prompt_text" =>
                    LET text == fl.trace[j].text
                    IN  /\ text = fl.prompt_text
                        /\ fl.generate_docs =>
                              WrittenAt(fl, prd)
                                 = {<<"# Project Requirements\n\nPrompt:\n\n">> \o text \o <<"\n">>}
                        /\ ~fl.generate_docs => WrittenAt(fl, prd) = {}
                        /\ IsDescriptionVariant(text) <=> fl.custom_description # None
                        /\ fl.custom_description # None => Embeds(text, fl.custom_description)
                        /\ text[1] = "The project scaffold is already created with "
                        /\ text[2] = Framework_display_name(fl.framework)
                        /\ NamesContractFile(text, contract_filename(fl.template))

\* C17: a Next.js project with documentation and a description was generated
\* and its prompt injected.
C17_Witness ==
    \E i \in 1..Len(flows) :
        /\ flows[i].framework = "Nextjs"
        /\ flows[i].generate_docs
        /\ flows[i].custom_description = Some(<<"d">>)
        /\ HasKind(flows[i].trace, "set_prompt_text")
        /\ flows[i].project_path \o <<"PRD.md">> \in WrittenPaths(flows[i])

\* The success notices task fl has shown.
SuccessNotices(fl) == {j \in 1..Len(fl.trace) : fl.trace[j].kind = "toast_sparkle"}

\* shown is the sanitized form of name, possibly with characters of name
\* around it.
IncludesSanitized(shown, name) ==
    \E p \in 0..Len(name), q \in 1..(Len(name) + 1) :
        shown = Str(SubSeq(name, 1, p)) \o SanitizedName(name) \o Str(SubSeq(name, q, Len(name)))

\* C18 as claimed: the success notice includes the sanitized project name,
\* the trimmed-or-bitcoin-app name that is the last component of the project
\* root folder.
C18_NoticeNamesSanitizedName ==
    \A i \in 1..Len(flows) :
        \A j \in SuccessNotices(flows[i]) :
            /\ IncludesSanitized(flows[i].trace[j].text[2], flows[i].app_name)
            /\ SanitizedName(flows[i].app_name) = FileName(flows[i].project_path)

(***************************************************************************)
(* Round trips and defaults.                                               *)
(***************************************************************************)
\* C19: a call of next_step at AppName or Framework changes the step only,
\* spawns no task, and leads to a step from which previous_step leads back to
\* the one it started at; every call of previous_step at Framework or Template
\* lands on the step immediately before, with the selection, the tasks and the
\* dismissal count as they were; and at AppName previous_step changes nothing.
C19_AdvanceThenRetreat ==
    /\ [][ /\ (next_step(MaxFlows) /\ step \in {"AppName", "Framework"}) =>
                /\ StepIndex(step') = StepIndex(step) + 1
                /\ selection' = selection
                /\ flows' = flows
                /\ dismissed' = dismissed
                /\ PreviousStepOf(step') = step
           /\ (previous_step /\ step \in {"Framework", "Template"}) =>
                /\ StepIndex(step') = StepIndex(step) - 1
                /\ selection' = selection
                /\ flows' = flows
                /\ dismissed' = dismissed ]_vars
    /\ [](step = "AppName" => ~ENABLED <<previous_step>>_vars)
    /\ [](step # "AppName" => ENABLED <<previous_step>>_vars)

\* C19: the wizard is at Framework with a selection that is not the default
\* one and no task spawned: where the round trip from Framework starts and ends.
C19_Witness ==
    /\ step = "Framework"
    /\ framework = "Vue"
    /\ template = "Custom"
    /\ app_name_input # <<>>
    /\ flows = <<>>
    /\ dismissed = 0

\* C20: a new wizard is at AppName with the first element of Framework::all(),
\* React, the first element of Template::all(), HelloWorld, generate_docs true
\* and nothing generated; and in every state the framework is one of the five
\* frameworks and the template one of the five templates.
C20_DefaultsAndOneSelected ==
    /\ step = "AppName"
    /\ framework = Framework_all[1] /\ framework = "React"
    /\ template = Template_all[1] /\ template = "HelloWorld"
    /\ generate_docs = TRUE
    /\ flows = <<>>
    /\ [](/\ framework \in Framework
          /\ template \in Template
          /\ Cardinality(Framework) = Len(Framework_all)
          /\ Cardinality(Template) = Len(Template_all)
          /\ Len(Framework_all) = Cardinality({"React", "Nextjs", "Vue", "Angular", "Svelte"})
          /\ Len(Template_all)
                = Cardinality({"HelloWorld", "Counter", "TicTacToe", "Auction", "Custom"}))

\* C20: the selection was changed to Vue and Custom and generation triggered.
C20_Witness ==
    /\ framework = "Vue"
    /\ template = "Custom"
    /\ ~generate_docs
    /\ step = "Creating"
    /\ Len(flows) = 1

(***************************************************************************)
(* The selection handlers.                                                 *)
(***************************************************************************)
\* C21: select_framework(f) can be called with every framework in every
\* state and sets framework to f; select_template(t) likewise sets template to
\* t; toggle_docs can always be called and negates generate_docs, so that a
\* second toggle gives the first value back; each of them leaves the step, the
\* other selection fields and both texts as they were, spawns no task and
\* emits no DismissEvent.
C21_SelectionChangesOwnField ==
    /\ [](/\ \A f \in Framework : ENABLED select_framework(f)
          /\ \A t \in Template : ENABLED select_template(t)
          /\ ENABLED toggle_docs)
    /\ [][ /\ \A f \in Framework :
                 select_framework(f) =>
                    /\ framework' = f
                    /\ <<template, generate_docs>>' = <<template, generate_docs>>
           /\ \A t \in Template :
                 select_template(t) =>
                    /\ template' = t
                    /\ <<framework, generate_docs>>' = <<framework, generate_docs>>
           /\ toggle_docs =>
                 /\ generate_docs' = ~generate_docs
                 /\ (~generate_docs') = generate_docs
                 /\ <<framework, template>>' = <<framework, template>>
           /\ ((\E f \in Framework : select_framework(f))
                  \/ (\E t \in Template : select_template(t)) \/ toggle_docs) =>
                 /\ step' = step
                 /\ <<app_name_input, custom_description_input>>'
                       = <<app_name_input, custom_description_input>>
                 /\ flows' = flows
                 /\ dismissed' = dismissed ]_vars

\* C21: the three handlers were called at the first step: the selection is
\* Vue, Custom, no documentation, the step is still AppName and nothing was
\* generated.
C21_Witness ==
    /\ step = "AppName"
    /\ framework = "Vue"
    /\ template = "Custom"
    /\ ~generate_docs
    /\ flows = <<>>
    /\ dismissed = 0

(***************************************************************************)
(* Runs compared.                                                          *)
(***************************************************************************)
\* The arguments of the write_scaffold call of task fl.
ScaffoldArguments(fl) ==
    <<fl.app_name, fl.selected_base, fl.framework, fl.template,
      fl.custom_description, fl.generate_docs, fl.prompt_text>>

\* The files task fl wrote, in order: path and contents.
WrittenFiles(fl) ==
    [j \in 1..Len(Writes(fl.trace)) |->
        <<Writes(fl.trace)[j].path, Writes(fl.trace)[j].text>>]

Count(fl, kind) == Cardinality({j \in 1..Len(fl.trace) : fl.trace[j].kind = kind})

\* How far a task has come.
PcRank(pc) ==
    CASE pc = "picker" -> 1 [] pc = "open_paths" -> 2 [] pc = "open_contract" -> 3 [] pc = "done" -> 4

\* C23: whatever the outcomes, a task asks for the directory picker once,
\* runs write_scaffold in a single pass that writes no file twice, and
\* requests the workspace-open, the primary-file-open, the prompt injection
\* and the success notice at most once each; it shows at most one warning
\* notice; and every step it takes moves it forward, never back to a step it
\* has already taken.
C23_NoStepIsRetried ==
    /\ [](\A i \in 1..Len(flows) :
            LET fl == flows[i]
            IN  /\ Count(fl, "prompt_for_paths") = 1
                /\ \A kind \in {"open_paths", "open_abs_path", "toggle_panel_focus",
                                "set_prompt_text", "toast_sparkle", "toast_warning"} :
                       Count(fl, kind) <= 1
                /\ Cardinality(WrittenPaths(fl)) = Len(Writes(fl.trace))
                /\ WriteScaffoldRan(fl) =>
                       IsPrefix(FsEvents(fl.trace), PerformedEvents(FlowOps(fl)))
                /\ ~WriteScaffoldRan(fl) => FsEvents(fl.trace) = <<>>)
    /\ [][ \A i \in 1..Len(flows) :
              flows'[i] # flows[i] => PcRank(flows'[i].pc) > PcRank(flows[i].pc) ]_vars

\* C23: the workspace did not open; the task asked for it once and is done.
C23_Witness ==
    \E i \in 1..Len(flows) :
        /\ flows[i].pc = "done"
        /\ flows[i].open_result = "Err"
        /\ Count(flows[i], "open_paths") = 1
        /\ Count(flows[i], "log_error") = 1

ContractOpenFailed(fl) == fl.contract_result = "Err"

\* What task fl did after it asked for the contract file.
AfterOpenFileRequest(fl) ==
    LET j == CHOOSE k \in OpenFileRequests(fl) : TRUE
    IN  SubSeq(fl.trace, j + 1, Len(fl.trace))

\* A failed contract-open can be followed by the prompt injection and the
\* success notice.
FailedOpenThenInjected(i) ==
    /\ ContractResolves(i)
    /\ ContractOpenFailed(flows'[i])
    /\ HasKind(flows'[i].trace, "set_prompt_text")
    /\ HasKind(flows'[i].trace, "toast_sparkle")

\* C24 as claimed: when the contract file fails to open, no warning notice is
\* shown, the failure is logged, the agent panel is asked for and the success
\* notice is shown.
C24_ContractFailureKeepsLaterSteps ==
    \A i \in 1..Len(flows) :
        ContractOpenFailed(flows[i]) =>
            /\ ~HasKind(flows[i].trace, "toast_warning")
            /\ HasLog(flows[i].trace, "Failed to open contract file")
            /\ HasKind(flows[i].trace, "toggle_panel_focus")
            /\ HasKind(flows[i].trace, "toast_sparkle")

\* C24 as amended: when the contract file fails to open, the failure is
\* logged and no warning notice is shown; what follows is what follows a file
\* that opened: nothing if the new window is gone, and otherwise the request
\* for the agent panel, the prompt injection if there is a panel, and the
\* success notice; and a task waiting for the contract file can always go on
\* from a failure to the injected prompt and the success notice.
C24_ContractFailureOnlyLogged ==
    /\ [](\A i \in 1..Len(flows) :
            LET fl == flows[i]
                focus == Event("toggle_panel_focus", <<>>, <<>>)
                inject == Event("set_prompt_text", <<>>, fl.prompt_text)
                log == Event("log_error", <<>>, <<"Failed to open contract file">>)
            IN  ContractOpenFailed(fl) =>
                  /\ ~HasKind(fl.trace, "toast_warning")
                  /\ AfterOpenFileRequest(fl)[1] = log
                  /\ Count(fl, "log_error") = 1
                  /\ \/ Tail(AfterOpenFileRequest(fl)) = <<>>
                     \/ /\ Len(AfterOpenFileRequest(fl)) \in {3, 4}
                        /\ AfterOpenFileRequest(fl)[2] = focus
                        /\ Len(AfterOpenFileRequest(fl)) = 4 => AfterOpenFileRequest(fl)[3] = inject
                        /\ AfterOpenFileRequest(fl)[Len(AfterOpenFileRequest(fl))].kind
                              = "toast_sparkle")
    /\ [](\A i \in 1..Len(flows) :
            flows[i].pc = "open_contract" => ENABLED FailedOpenThenInjected(i))

\* C24: the contract file did not open; the failure was logged, the prompt
\* injected and the success notice shown.
C24_Witness ==
    \E i \in 1..Len(flows) :
        /\ ContractOpenFailed(flows[i])
        /\ HasLog(flows[i].trace, "Failed to open contract file")
        /\ HasKind(flows[i].trace, "set_prompt_text")
        /\ HasKind(flows[i].trace, "toast_sparkle")
        /\ ~HasKind(flows[i].trace, "toast_warning")

(***************************************************************************)
(* The rendered wizard.                                                    *)
(***************************************************************************)
\* C25: when the handlers are reached only through what the wizard renders
\* (Back not at AppName or Creating, the primary button not at Creating, the
\* framework buttons at Framework, the template buttons and the docs toggle
\* at Template), then once the step is Creating no click changes the step,
\* the selection or anything else of the wizard, and the wizard spawns at
\* most one task: none before it reaches Creating and exactly one from then on.
C25_OneFlowUnderUiGuards ==
    /\ [](/\ Len(flows) <= 1
          /\ (step = "Creating") <=> (Len(flows) = 1)
          /\ dismissed = Len(flows))
    /\ [](step = "Creating" => ~ENABLED <<NextRendered>>_vars)
    /\ [][step = "Creating" => (step' = "Creating" /\ flows' = flows)]_vars

\* C25: the wizard was clicked through to Creating with Svelte, Auction and
\* no documentation, and spawned its one task.
C25_Witness ==
    /\ step = "Creating"
    /\ Len(flows) = 1
    /\ flows[1].framework = "Svelte"
    /\ flows[1].template = "Auction"
    /\ ~flows[1].generate_docs
    /\ flows[1].app_name # <<>>

(***************************************************************************)
(* Termination.                                                            *)
(***************************************************************************)
\* The next step of the i-th task, if there is one.
FlowStep(i) == i \in 1..Len(flows) /\ TaskStep(i)

\* SpecLive: SpecFlow in which whatever a task awaits (the picker, the
\* workspace-open, the file-open) eventually answers and the executor then
\* polls the task.
SpecLive ==
    /\ Init
    /\ [][NextFlow]_vars
    /\ \A i \in 1..MaxFlows : WF_vars(FlowStep(i))

PickerFailedOutcome(fl) == fl.result \in {"Err", "Canceled"}

NothingSelectedOutcome(fl) == fl.result \in {"None", "Empty"}

ScaffoldFailedOutcome(fl) == fl.result = "Some" /\ fl.scaffold_result > 0

WorkspaceOpenFailedOutcome(fl) ==
    /\ Succeeded(fl)
    /\ fl.open_result = "Err" \/ HasLog(fl.trace, "Failed to spawn open_paths task")

CompletedWithNotice(fl) == HasKind(fl.trace, "toast_sparkle")

\* The workspace opened, but its window was closed before the task could
\* show the success notice in it.
CompletedWithoutNotice(fl) ==
    /\ Succeeded(fl)
    /\ fl.open_result = "Ok"
    /\ ~HasKind(fl.trace, "toast_sparkle")

Truths(S) == Cardinality({b \in S : b[2]})

ListedOutcomes(fl) ==
    Truths({ <<1, PickerFailedOutcome(fl)>>, <<2, NothingSelectedOutcome(fl)>>,
             <<3, ScaffoldFailedOutcome(fl)>>, <<4, WorkspaceOpenFailedOutcome(fl)>>,
             <<5, CompletedWithNotice(fl)>> })

Started(i) == i \in 1..Len(flows)

Finished(i) == i \in 1..Len(flows) /\ flows[i].pc = "done"

\* C26 as claimed: every task, its awaited operations answering, ends in
\* exactly one of: picker failed, nothing selected, scaffold write failed,
\* workspace-open failed, completed with the success notice.
C26_EndsInListedOutcome ==
    /\ \A i \in 1..MaxFlows : Started(i) ~> Finished(i)
    /\ [](\A i \in 1..Len(flows) : Finished(i) => ListedOutcomes(flows[i]) = 1)

\* C26 as amended: every task, its awaited operations answering, is
\* eventually done; a task that is done is in exactly one of six outcomes,
\* the five listed and "completed without the success notice, the new window
\* having been closed"; and a task that is done does nothing more.
C26_FlowTerminates ==
    /\ \A i \in 1..MaxFlows : Started(i) ~> Finished(i)
    /\ [](\A i \in 1..Len(flows) :
            /\ Finished(i) =>
                  ListedOutcomes(flows[i])
                     + (IF CompletedWithoutNotice(flows[i]) THEN 1 ELSE 0) = 1
            /\ ~Finished(i) => ListedOutcomes(flows[i]) = 0)
    /\ [][\A i \in 1..Len(flows) : Finished(i) => flows'[i] = flows[i]]_vars

\* C26: a task is done whose workspace opened but whose window was closed
\* before the success notice.
C26_Witness ==
    \E i \in 1..Len(flows) :
        /\ Finished(i)
        /\ CompletedWithoutNotice(flows[i])
        /\ HasKind(flows[i].trace, "open_paths")

(***************************************************************************)
(* Where the files go.                                                     *)
(***************************************************************************)
\* The directory an absolute path denotes once its ".." components are
\* resolved.
RECURSIVE Resolve(_, _)
Resolve(p, done) ==
    IF p = <<>> THEN done
    ELSE IF Head(p) = ".."
         THEN Resolve(Tail(p), IF Len(done) > 1 THEN SubSeq(done, 1, Len(done) - 1) ELSE done)
         ELSE Resolve(Tail(p), Append(done, Head(p)))

\* C27 as claimed: for every name, the project root is a folder directly
\* inside the selected directory, and every directory created and every file
\* written lies beneath the selected directory.
C27_FilesStayBelowBase ==
    \A i \in 1..Len(flows) :
        LET fl == flows[i]
            fs == FsEvents(fl.trace)
        IN  (WriteScaffoldRan(fl) /\ fs # <<>>) =>
              /\ Len(Resolve(fs[1].path, <<>>)) = Len(fl.selected_base) + 1
              /\ \A j \in 1..Len(fs) : Below(Resolve(fs[j].path, <<>>), fl.selected_base)

(***************************************************************************)
(* The slash commands.                                                     *)
(***************************************************************************)
\* The arguments with one blank between each two, put together from the end.
RECURSIVE SpaceJoined(_)
SpaceJoined(args) ==
    IF args = <<>> THEN ""
    ELSE IF Len(args) = 1 THEN Str(args[1])
    ELSE SpaceJoined(SubSeq(args, 1, Len(args) - 1)) \o " " \o Str(args[Len(args)])

\* The number of characters of a text of segments.
Characters(text) ==
    LET Sum[j \in 0..Len(text)] == IF j = 0 THEN 0 ELSE Sum[j - 1] + Len(text[j])
    IN  Sum[Len(text)]

\* C28: run_slash_command returns an error, with no sections and no text,
\* for every command name other than covenant and explain, and for covenant
\* and explain when the argument list is empty; in every other case it returns
\* an output with exactly one section, whose range starts at 0 and ends at the
\* length of the output text, and the text holds the arguments joined with
\* single blanks.
C28_SlashCommandResult ==
    slash_command.output # None =>
        LET name == slash_command.name
            args == slash_command.args
            out == slash_command.output[1]
        IN  /\ out.ok <=> (name \in {"covenant", "explain"} /\ args # <<>>)
            /\ ~out.ok => (out.error # "" /\ out.sections = <<>> /\ out.text = <<>>)
            /\ out.ok =>
                  /\ Len(out.sections) = 1
                  /\ out.sections[1].range = [start |-> 0, end |-> Characters(out.text)]
                  /\ \E j \in 1..Len(out.text) : out.text[j] = SpaceJoined(args)
                  /\ Characters(out.text) > Len(SpaceJoined(args))

\* C28: covenant was run with the arguments "a" and "bc" and returned one
\* section over a text that holds "a bc".
C28_Witness ==
    /\ slash_command.name = "covenant"
    /\ slash_command.args = << <<"a">>, <<"b", "c">> >>
    /\ slash_command.output # None
    /\ slash_command.output[1].ok
    /\ slash_command.output[1].text[2] = "a bc"

====
